---- MODULE Spec2Model ----
(***************************************************************************)
(* DogeDictate: the hotkey dialog (hotkeys.js), its recording session and   *)
(* key-down normaliser, and the settings store both renderer surfaces      *)
(* reach through the preload bridge.                                       *)
(***************************************************************************)
EXTENDS Integers, Sequences, FiniteSets, TLC

VARIABLES
    value,            \* hotkeys.js: input.value of each .hotkey-input
    classList,        \* the inputs that carry the 'recording' class
    isRecording,      \* hotkeys.js:17
    currentInput,     \* hotkeys.js:18 (an input id, or null)
    defaultPrevented, \* whether the last key-down had preventDefault() called
    loadpc,           \* loadHotkeys(): "await" | "ok" | "caught"
    saves,            \* the saveHotkeys() invocations suspended at an await
                      \* (began: history, the store's write count at the click)
    closed,           \* the dialog window was dismissed by its host
    console,          \* the messages console.error has printed
    persisted,        \* the settings blob held by the main process
    muteAudio,        \* renderer.js: the main surface's mute-audio checkbox
    mainSaves,        \* the main surface's saveSettings() invocations in flight
    written,          \* history: the last store write, who issued it, and
                      \* how many writes the store has taken
    opened,           \* history: how many times the dialog document was loaded
    lastConfirm,      \* what the last confirm() of the reset button returned
    nEvents,          \* history: user gestures so far (bounds the exploration)
    listeners,        \* preload.js: ipcRenderer's listeners of each channel
    invoked,          \* history: the last channel event and the renderer
                      \* callbacks it invoked
    lastCall          \* history: the last api.on / api.off call, and the
                      \* channel's listeners before it

vars == <<value, classList, isRecording, currentInput, defaultPrevented, loadpc,
          saves, closed, console, persisted, muteAudio, mainSaves, written,
          opened, lastConfirm, nEvents, listeners, invoked, lastCall>>

-----------------------------------------------------------------------------
(* Bounds of the exploration.                                              *)

MaxEvents == 3
MaxSaves == 2
MaxMainSaves == 1
MaxListeners == 3

-----------------------------------------------------------------------------
(* hotkeys.html: the six .hotkey-input elements, in document order.        *)

hotkeyInputs ==
    <<"push-to-talk", "toggle-hands-free", "toggle-bar",
      "switch-en", "switch-pt", "switch-es">>

InputIds == {hotkeyInputs[i] : i \in 1..Len(hotkeyInputs)}

null == "null"

defaultHotkeys ==
    [id \in InputIds |->
        CASE id = "push-to-talk" -> "Alt+Space"
          [] id = "toggle-hands-free" -> "Alt+H"
          [] id = "toggle-bar" -> "Alt+B"
          [] id = "switch-en" -> "Alt+1"
          [] id = "switch-pt" -> "Alt+2"
          [] id = "switch-es" -> "Alt+3"]

RecordingText == "Recording..."

\* The text inputs carry no value attribute: they start empty.
InitialValue == [id \in InputIds |-> ""]

-----------------------------------------------------------------------------
(* The recording session: startRecording / stopRecording.  A session is    *)
(* the record of the four pieces of renderer state the handlers touch.     *)

Session ==
    [value |-> value, classList |-> classList,
     isRecording |-> isRecording, currentInput |-> currentInput]

SetSession(s) ==
    /\ value' = s.value
    /\ classList' = s.classList
    /\ isRecording' = s.isRecording
    /\ currentInput' = s.currentInput

\* Mutant: the recording class is left on the input.
stopRecording_keepMark(s) ==
    LET c == s.currentInput
        v == IF c # null /\ s.value[c] = RecordingText
             THEN [s.value EXCEPT ![c] = defaultHotkeys[c]]
             ELSE s.value
    IN  [value |-> v, classList |-> s.classList, isRecording |-> FALSE,
         currentInput |-> null]

\* Mutant: currentInput is not cleared.
stopRecording_keepInput(s) ==
    LET c == s.currentInput
        v == IF c # null /\ s.value[c] = RecordingText
             THEN [s.value EXCEPT ![c] = defaultHotkeys[c]]
             ELSE s.value
        cl == IF c # null THEN s.classList \ {c} ELSE s.classList
    IN  [value |-> v, classList |-> cl, isRecording |-> FALSE,
         currentInput |-> c]

stopRecording(s) ==
    LET c == s.currentInput
        v == IF c # null /\ s.value[c] = RecordingText
             THEN [s.value EXCEPT ![c] = defaultHotkeys[c]]
             ELSE s.value
        cl == IF c # null THEN s.classList \ {c} ELSE s.classList
    IN  [value |-> v, classList |-> cl, isRecording |-> FALSE, currentInput |-> null]

\* Mutant: the open session is not stopped before the new one starts.
startRecording_noStop(s, input) ==
    [value |-> [s.value EXCEPT ![input] = RecordingText],
     classList |-> s.classList \cup {input},
     isRecording |-> TRUE,
     currentInput |-> input]

startRecording(s, input) ==
    LET s1 == IF s.isRecording THEN stopRecording(s) ELSE s
    IN  [value |-> [s1.value EXCEPT ![input] = RecordingText],
         classList |-> s1.classList \cup {input},
         isRecording |-> TRUE,
         currentInput |-> input]

\* Mutant: the last input is left out of the reset.
resetHotkeys_skipLast(v) ==
    [id \in DOMAIN v |->
        IF id = hotkeyInputs[Len(hotkeyInputs)] THEN v[id] ELSE defaultHotkeys[id]]

resetHotkeys(v) == [id \in DOMAIN v |-> defaultHotkeys[id]]

-----------------------------------------------------------------------------
(* Key-down events and the key-down listener.                              *)

ModifierKeys == {"Control", "Alt", "Shift"}

PrimaryKeys == {"b", "4", " ", "F5"}

Keys == ModifierKeys \cup PrimaryKeys

\* A key-down of a modifier key reports that modifier's own flag as set.
KeyEvents ==
    {e \in [key : Keys, ctrlKey : BOOLEAN, altKey : BOOLEAN, shiftKey : BOOLEAN] :
        /\ e.key = "Control" => e.ctrlKey
        /\ e.key = "Alt" => e.altKey
        /\ e.key = "Shift" => e.shiftKey}

KeyEvent(k, c, a, sh) == [key |-> k, ctrlKey |-> c, altKey |-> a, shiftKey |-> sh]

\* The keys typed in the dialog: Alt alone, and 4, b and the space bar with
\* Alt held.
TypedKeyEvents ==
    {KeyEvent("Alt", FALSE, TRUE, FALSE), KeyEvent("4", FALSE, TRUE, FALSE),
     KeyEvent("b", FALSE, TRUE, FALSE), KeyEvent(" ", FALSE, TRUE, FALSE)}

\* String.prototype.toUpperCase on the one-character keys of Keys.
toUpperCase(k) ==
    CASE k = "b" -> "B"
      [] OTHER -> k

\* Array.prototype.join
RECURSIVE join(_, _)
join(keys, sep) ==
    IF Len(keys) = 0 THEN ""
    ELSE IF Len(keys) = 1 THEN keys[1]
    ELSE keys[1] \o sep \o join(Tail(keys), sep)

\* Mutant: Alt is pushed before Ctrl, and the key is not upper-cased.
hotkeyKeys_altFirst(e) ==
    (IF e.altKey THEN <<"Alt">> ELSE <<>>)
    \o (IF e.ctrlKey THEN <<"Ctrl">> ELSE <<>>)
    \o (IF e.shiftKey THEN <<"Shift">> ELSE <<>>)
    \o (IF e.key \notin {"Control", "Alt", "Shift"} THEN <<e.key>> ELSE <<>>)

\* The keys array the listener builds for event e.
hotkeyKeys(e) ==
    (IF e.ctrlKey THEN <<"Ctrl">> ELSE <<>>)
    \o (IF e.altKey THEN <<"Alt">> ELSE <<>>)
    \o (IF e.shiftKey THEN <<"Shift">> ELSE <<>>)
    \o (IF e.key \notin {"Control", "Alt", "Shift"}
        THEN <<IF Len(e.key) = 1 THEN toUpperCase(e.key) ELSE e.key>>
        ELSE <<>>)

\* Mutant: preventDefault() is called before the isRecording guard.
keydownPrevented_always(s, e) == TRUE

\* Mutant: preventDefault() is called only when a key is committed.
keydownPrevented_onCommit(s, e) == s.isRecording /\ e.key \notin ModifierKeys

\* Whether the listener reaches e.preventDefault() for event e.
keydownPrevented(s, e) == s.isRecording

\* Mutant: a chord that is already the value of another field is refused
\* and the session stays open.
keydown_rejectDuplicate(s, e) ==
    IF ~s.isRecording THEN s
    ELSE LET keys == hotkeyKeys(e)
         IN  IF /\ Len(keys) > 0
                /\ \A o \in InputIds \ {s.currentInput} :
                       s.value[o] # join(keys, "+")
             THEN stopRecording(
                    [s EXCEPT !.value[s.currentInput] = join(keys, "+")])
             ELSE s

keydown(s, e) ==
    IF ~s.isRecording THEN s
    ELSE LET keys == hotkeyKeys(e)
         IN  IF Len(keys) > 0
             THEN stopRecording(
                    [s EXCEPT !.value[s.currentInput] = join(keys, "+")])
             ELSE s

-----------------------------------------------------------------------------
(* The preload bridge: the methods of window.api.                          *)

api ==
    {"getSettings", "saveSettings", "getMicrophones", "testMicrophone",
     "testService", "startDictation", "stopDictation", "minimizeWindow",
     "maximizeWindow", "closeWindow", "on", "off"}

-----------------------------------------------------------------------------
(* The settings blob.  `present` is FALSE while nothing has been stored    *)
(* (getSettings resolves to undefined); `sections` maps the blob's keys.   *)

NoSections == [k \in {} |-> ""]

Absent == [present |-> FALSE, sections |-> NoSections]

Blob(sections) == [present |-> TRUE, sections |-> sections]

MainSections ==
    {"interactionSounds", "muteAudio", "autoLearn", "outputLanguage",
     "recognitionService", "whisperKey", "azureKey", "azureRegion",
     "googleCredentials"}

\* renderer.js saveSettings(): the settings object built from the form.
formSettings(mute) ==
    [k \in MainSections |->
        CASE k = "interactionSounds" -> FALSE
          [] k = "muteAudio" -> mute
          [] k = "autoLearn" -> TRUE
          [] k = "outputLanguage" -> "en-US"
          [] k = "recognitionService" -> "whisper"
          [] OTHER -> ""]

\* Mutant: the collected hotkeys are not assigned to the settings.
withHotkeys_notAssigned(sections, hotkeys) == sections

\* Mutant: the settings object is built anew instead of from the blob read.
withHotkeys_fresh(sections, hotkeys) == [k \in {"hotkeys"} |-> hotkeys]

\* Mutant: the new entries are merged into the hotkeys section that was read.
withHotkeys_mergeEntries(sections, hotkeys) ==
    [k \in DOMAIN sections \cup {"hotkeys"} |->
        IF k # "hotkeys" THEN sections[k]
        ELSE IF "hotkeys" \in DOMAIN sections
             THEN [a \in DOMAIN sections["hotkeys"] \cup DOMAIN hotkeys |->
                      IF a \in DOMAIN hotkeys THEN hotkeys[a]
                      ELSE sections["hotkeys"][a]]
             ELSE hotkeys]

\* settings.hotkeys = hotkeys
withHotkeys(sections, hotkeys) ==
    [k \in DOMAIN sections \cup {"hotkeys"} |->
        IF k = "hotkeys" THEN hotkeys ELSE sections[k]]

\* Blobs an earlier run may have left in the store.
PartialHotkeys ==
    [k \in {"toggle-bar", "switch-fr"} |->
        IF k = "toggle-bar" THEN "Ctrl+B" ELSE "Alt+5"]

FullHotkeys == [defaultHotkeys EXCEPT !["switch-en"] = "Ctrl+Shift+F5"]

InitialBlobs ==
    {Absent,
     Blob(formSettings(FALSE)),
     Blob(withHotkeys(formSettings(FALSE), PartialHotkeys)),
     Blob(withHotkeys(NoSections, FullHotkeys))}

-----------------------------------------------------------------------------
(* The settings store gateway behind getSettings / saveSettings: a read    *)
(* resolves to the stored blob, a write replaces the whole blob.           *)

ipcGetSettings == persisted

ipcSaveSettings(settings) == persisted' = Blob(settings)

-----------------------------------------------------------------------------
(* loadHotkeys / saveHotkeys, split at their awaits.                       *)

\* Mutant: no fallback to the default table.
loadedHotkeys_noFallback(blob) ==
    IF blob.present /\ "hotkeys" \in DOMAIN blob.sections
    THEN blob.sections["hotkeys"]
    ELSE NoSections

\* settings?.hotkeys || defaultHotkeys
loadedHotkeys(blob) ==
    IF blob.present /\ "hotkeys" \in DOMAIN blob.sections
    THEN blob.sections["hotkeys"]
    ELSE defaultHotkeys

\* Object.entries(hotkeys).forEach: only ids of existing elements are set.
loadValues(v, hotkeys) ==
    [id \in DOMAIN v |-> IF id \in DOMAIN hotkeys THEN hotkeys[id] ELSE v[id]]

\* hotkeys[input.id] = input.value || defaultHotkeys[input.id]
collectHotkeys(v) ==
    [id \in InputIds |-> IF v[id] # "" THEN v[id] ELSE defaultHotkeys[id]]

LoadError == "Error loading hotkeys:"
SaveError == "Error saving hotkeys:"

RemoveAt(seq, i) == SubSeq(seq, 1, i - 1) \o SubSeq(seq, i + 1, Len(seq))

NoWrite == [by |-> "none", hotkeys |-> InitialValue, n |-> 0]

-----------------------------------------------------------------------------

-----------------------------------------------------------------------------
(* The preload bridge's event API (preload.js).                            *)

\* The channels the main process may send on: the two of the whitelist and
\* one that is not on it.
Channels == {"dictation-status", "mic-level", "get-settings"}

\* The renderer's callbacks.
Callbacks == {"onMicLevel", "onDictationStatus"}

\* const validChannels = ['dictation-status', 'mic-level']
validChannels == {"dictation-status", "mic-level"}

\* A renderer callback as a listener object.
CallbackFn(callback) == [fn |-> "callback", callback |-> callback]

\* (event, ...args) => callback(...args): the function on() hands to
\* ipcRenderer.on, a new object on every call.
WrapperFn(callback) == [fn |-> "wrapper", callback |-> callback]

\* EventEmitter.removeListener: takes out the most recently added instance
\* of the listener, if there is one.
removeListener(ls, listener) ==
    LET at == {i \in 1..Len(ls) : ls[i] = listener}
    IN  IF at = {} THEN ls
        ELSE LET last == CHOOSE i \in at : \A j \in at : j <= i
             IN  [i \in 1..(Len(ls) - 1) |->
                     IF i < last THEN ls[i] ELSE ls[i + 1]]

\* Mutant: on() registers on any channel.
on_anyChannel(l, channel, callback) ==
    [l EXCEPT ![channel] = Append(l[channel], WrapperFn(callback))]

\* api.on(channel, callback)
on(l, channel, callback) ==
    IF channel \in validChannels
    THEN [l EXCEPT ![channel] = Append(l[channel], WrapperFn(callback))]
    ELSE l

\* api.off(channel, callback)
off(l, channel, callback) ==
    IF channel \in validChannels
    THEN [l EXCEPT ![channel] =
             removeListener(l[channel], CallbackFn(callback))]
    ELSE l

\* The callbacks the listeners of a channel invoke on an event, in order.
emit(ls) == [i \in 1..Len(ls) |-> ls[i].callback]

\* renderer.js registers one callback on each whitelisted channel when the
\* script is loaded.
RendererListeners ==
    on(on([ch \in Channels |-> <<>>], "mic-level", "onMicLevel"),
       "dictation-status", "onDictationStatus")

NoEvent == [channel |-> "none", callbacks |-> <<>>]
NoCall == [op |-> "none", channel |-> "none", callback |-> "none",
           before |-> <<>>]

Init ==
    /\ value = InitialValue
    /\ classList = {}
    /\ isRecording = FALSE
    /\ currentInput = null
    /\ defaultPrevented = FALSE
    /\ loadpc = "await"
    /\ saves = <<>>
    /\ closed = FALSE
    /\ console = {}
    /\ persisted \in InitialBlobs
    /\ muteAudio = FALSE
    /\ mainSaves = <<>>
    /\ written = NoWrite
    /\ opened = 1
    /\ lastConfirm = "none"
    /\ nEvents = 0
    /\ listeners = RendererListeners
    /\ invoked = NoEvent
    /\ lastCall = NoCall

Gesture ==
    /\ ~closed
    /\ nEvents < MaxEvents
    /\ nEvents' = nEvents + 1

DialogAsync == <<loadpc, saves, closed, console, opened>>
Store == <<persisted, written>>
MainSurface == <<muteAudio, mainSaves>>
Bridge == <<listeners, invoked, lastCall>>
SessionVars == <<value, classList, isRecording, currentInput>>

\* input 'click' listener
Click(input) ==
    /\ Gesture
    /\ SetSession(startRecording(Session, input))
    /\ UNCHANGED <<defaultPrevented, DialogAsync, lastConfirm, Store, MainSurface,
                   Bridge>>

\* input 'blur' listener
Blur ==
    /\ Gesture
    /\ SetSession(stopRecording(Session))
    /\ UNCHANGED <<defaultPrevented, DialogAsync, lastConfirm, Store, MainSurface,
                   Bridge>>

\* document 'keydown' listener
KeyDown(e) ==
    /\ Gesture
    /\ SetSession(keydown(Session, e))
    /\ defaultPrevented' = keydownPrevented(Session, e)
    /\ UNCHANGED <<DialogAsync, lastConfirm, Store, MainSurface,
                   Bridge>>

\* reset button 'click' listener; confirmed is what confirm() returned
\* Mutant: the reset is applied whatever confirm() returned.
ClickReset_unconditional(confirmed) ==
    /\ Gesture
    /\ lastConfirm' = IF confirmed THEN "accepted" ELSE "declined"
    /\ value' = resetHotkeys(value)
    /\ UNCHANGED <<classList, isRecording, currentInput, defaultPrevented,
                   DialogAsync, Store, MainSurface,
                   Bridge>>

\* Mutant: a confirmed reset also stores the defaults.
ClickReset_autosave(confirmed) ==
    /\ Gesture
    /\ lastConfirm' = IF confirmed THEN "accepted" ELSE "declined"
    /\ value' = IF confirmed THEN resetHotkeys(value) ELSE value
    /\ IF confirmed
       THEN ipcSaveSettings(withHotkeys(persisted.sections,
                                        resetHotkeys(value)))
       ELSE persisted' = persisted
    /\ UNCHANGED <<classList, isRecording, currentInput, defaultPrevented,
                   DialogAsync, written, MainSurface,
                   Bridge>>

ClickReset(confirmed) ==
    /\ Gesture
    /\ lastConfirm' = IF confirmed THEN "accepted" ELSE "declined"
    /\ value' = IF confirmed THEN resetHotkeys(value) ELSE value
    /\ UNCHANGED <<classList, isRecording, currentInput, defaultPrevented,
                   DialogAsync, Store, MainSurface,
                   Bridge>>

\* save button 'click' listener: saveHotkeys() up to its first await
\* Mutant: the Save button is inert while an earlier Save is unresolved.
ClickSave_whenSettled ==
    /\ Gesture
    /\ saves = <<>>
    /\ saves' = Append(saves, [stage |-> "read",
                               hotkeys |-> collectHotkeys(value),
                               settings |-> NoSections,
                               began |-> written.n])
    /\ UNCHANGED <<SessionVars, defaultPrevented, loadpc, closed, console,
                   opened, lastConfirm, Store, MainSurface,
                   Bridge>>

ClickSave ==
    /\ Gesture
    /\ Len(saves) < MaxSaves
    /\ saves' = Append(saves, [stage |-> "read",
                               hotkeys |-> collectHotkeys(value),
                               settings |-> NoSections,
                               began |-> written.n])
    /\ UNCHANGED <<SessionVars, defaultPrevented, loadpc, closed, console,
                   opened, lastConfirm, Store, MainSurface,
                   Bridge>>

\* Mutant: the catch block starts the save over.
saveCatch_retry(i) ==
    /\ console' = console \cup {SaveError}
    /\ saves' = [saves EXCEPT ![i] =
                    [stage |-> "read", hotkeys |-> saves[i].hotkeys,
                     settings |-> NoSections, began |-> saves[i].began]]
    /\ UNCHANGED <<closed, Store>>

\* saveHotkeys() catch block: the error is logged, the invocation ends.
saveCatch(i) ==
    /\ console' = console \cup {SaveError}
    /\ saves' = RemoveAt(saves, i)
    /\ UNCHANGED <<closed, Store>>

\* window.api.closeHotkeyDialog(): a call of a method the bridge does not
\* expose throws a TypeError inside the try block.
closeHotkeyDialog(i) ==
    IF "closeHotkeyDialog" \in api
    THEN /\ closed' = TRUE
         /\ saves' = RemoveAt(saves, i)
         /\ console' = console
    ELSE /\ console' = console \cup {SaveError}
         /\ saves' = RemoveAt(saves, i)
         /\ closed' = closed

\* getSettings() of saveHotkeys resolves: settings.hotkeys is set and the
\* write is issued.
SaveReadResolve(i) ==
    /\ ~closed
    /\ saves[i].stage = "read"
    /\ saves' = [saves EXCEPT ![i] =
                    [stage |-> "write",
                     hotkeys |-> saves[i].hotkeys,
                     settings |-> withHotkeys(ipcGetSettings.sections,
                                             saves[i].hotkeys),
                     began |-> saves[i].began]]
    /\ UNCHANGED <<SessionVars, defaultPrevented, loadpc, closed, console,
                   opened, lastConfirm, Store, MainSurface, nEvents,
                   Bridge>>

SaveReadReject(i) ==
    /\ ~closed
    /\ saves[i].stage = "read"
    /\ saveCatch(i)
    /\ UNCHANGED <<SessionVars, defaultPrevented, loadpc, opened, lastConfirm,
                   MainSurface, nEvents,
                   Bridge>>

\* Mutant: the blob is read again when the write is applied, so sections
\* written meanwhile are kept.
SaveWriteResolve_reread(i) ==
    /\ ~closed
    /\ saves[i].stage = "write"
    /\ ipcSaveSettings(withHotkeys(persisted.sections, saves[i].hotkeys))
    /\ written' = [by |-> "dialog", hotkeys |-> saves[i].hotkeys,
                   n |-> written.n + 1]
    /\ closeHotkeyDialog(i)
    /\ UNCHANGED <<SessionVars, defaultPrevented, loadpc, opened, lastConfirm,
                   MainSurface, nEvents,
                   Bridge>>

\* saveSettings(settings) of saveHotkeys resolves: the store holds the blob.
SaveWriteResolve(i) ==
    /\ ~closed
    /\ saves[i].stage = "write"
    /\ ipcSaveSettings(saves[i].settings)
    /\ written' = [by |-> "dialog", hotkeys |-> saves[i].hotkeys,
                   n |-> written.n + 1]
    /\ closeHotkeyDialog(i)
    /\ UNCHANGED <<SessionVars, defaultPrevented, loadpc, opened, lastConfirm,
                   MainSurface, nEvents,
                   Bridge>>

SaveWriteReject(i) ==
    /\ ~closed
    /\ saves[i].stage = "write"
    /\ saveCatch(i)
    /\ UNCHANGED <<SessionVars, defaultPrevented, loadpc, opened, lastConfirm,
                   MainSurface, nEvents,
                   Bridge>>

\* getSettings() of loadHotkeys resolves.
LoadResolve ==
    /\ ~closed
    /\ loadpc = "await"
    /\ value' = loadValues(value, loadedHotkeys(ipcGetSettings))
    /\ loadpc' = "ok"
    /\ UNCHANGED <<classList, isRecording, currentInput, defaultPrevented,
                   saves, closed, console, opened, lastConfirm, Store,
                   MainSurface, nEvents,
                   Bridge>>

\* getSettings() of loadHotkeys rejects: the catch block logs.
LoadReject ==
    /\ ~closed
    /\ loadpc = "await"
    /\ loadpc' = "caught"
    /\ console' = console \cup {LoadError}
    /\ UNCHANGED <<SessionVars, defaultPrevented, saves, closed, opened, lastConfirm,
                   Store, MainSurface, nEvents,
                   Bridge>>

\* The host opens the dialog window anew: the script runs from the top and
\* DOMContentLoaded calls loadHotkeys().
OpenDialog ==
    /\ nEvents < MaxEvents
    /\ nEvents' = nEvents + 1
    /\ loadpc # "await"
    /\ saves = <<>>
    /\ value' = InitialValue
    /\ classList' = {}
    /\ isRecording' = FALSE
    /\ currentInput' = null
    /\ defaultPrevented' = FALSE
    /\ loadpc' = "await"
    /\ closed' = FALSE
    /\ console' = {}
    /\ opened' = opened + 1
    /\ lastConfirm' = "none"
    /\ UNCHANGED <<saves, Store, MainSurface,
                   Bridge>>

\* Main surface: the mute-audio checkbox changes; its 'change' listener is
\* saveSettings(), which issues the write of the form's settings.
\* Click on the main surface's "Change" hotkeys button: the listener's body
\* is empty.
ClickChangeHotkeys ==
    /\ nEvents < MaxEvents
    /\ nEvents' = nEvents + 1
    /\ UNCHANGED <<SessionVars, defaultPrevented, DialogAsync, lastConfirm,
                   Store, MainSurface,
                   Bridge>>

ChangeMuteAudio ==
    /\ nEvents < MaxEvents
    /\ nEvents' = nEvents + 1
    /\ Len(mainSaves) < MaxMainSaves
    /\ muteAudio' = ~muteAudio
    /\ mainSaves' = Append(mainSaves, formSettings(~muteAudio))
    /\ UNCHANGED <<SessionVars, defaultPrevented, DialogAsync, lastConfirm, Store,
                   Bridge>>

MainWriteResolve ==
    /\ mainSaves # <<>>
    /\ ipcSaveSettings(Head(mainSaves))
    /\ written' = [by |-> "main", hotkeys |-> InitialValue, n |-> written.n + 1]
    /\ mainSaves' = Tail(mainSaves)
    /\ UNCHANGED <<SessionVars, defaultPrevented, DialogAsync, lastConfirm,
                   muteAudio, nEvents,
                   Bridge>>

MainWriteReject ==
    /\ mainSaves # <<>>
    /\ mainSaves' = Tail(mainSaves)
    /\ UNCHANGED <<SessionVars, defaultPrevented, DialogAsync, lastConfirm, Store,
                   muteAudio, nEvents,
                   Bridge>>

Next ==
    \/ \E input \in InputIds : Click(input)
    \/ Blur
    \/ \E e \in TypedKeyEvents : KeyDown(e)
    \/ \E confirmed \in BOOLEAN : ClickReset(confirmed)
    \/ ClickSave
    \/ \E i \in 1..Len(saves) : SaveReadResolve(i)
    \/ \E i \in 1..Len(saves) : SaveReadReject(i)
    \/ \E i \in 1..Len(saves) : SaveWriteResolve(i)
    \/ \E i \in 1..Len(saves) : SaveWriteReject(i)
    \/ LoadResolve
    \/ LoadReject
    \/ OpenDialog
    \/ ClickChangeHotkeys
    \/ ChangeMuteAudio
    \/ MainWriteResolve
    \/ MainWriteReject

Spec == Init /\ [][Next]_vars

\* The recording session alone, under every key-down event of KeyEvents.
KeyInit == Init /\ persisted = Absent

KeyNext ==
    \/ \E input \in InputIds : Click(input)
    \/ Blur
    \/ \E e \in KeyEvents : KeyDown(e)
    \/ LoadResolve

KeySpec == KeyInit /\ [][KeyNext]_vars

\* Everything but the bridge's listeners.
Surfaces ==
    <<SessionVars, defaultPrevented, DialogAsync, lastConfirm, Store,
      MainSurface, nEvents>>

\* The renderer calls window.api.on(channel, callback).
On(channel, callback) ==
    /\ Len(listeners[channel]) < MaxListeners
    /\ listeners' = on(listeners, channel, callback)
    /\ lastCall' = [op |-> "on", channel |-> channel, callback |-> callback,
                    before |-> listeners[channel]]
    /\ UNCHANGED <<invoked, Surfaces>>

\* The renderer calls window.api.off(channel, callback).
Off(channel, callback) ==
    /\ listeners' = off(listeners, channel, callback)
    /\ lastCall' = [op |-> "off", channel |-> channel, callback |-> callback,
                    before |-> listeners[channel]]
    /\ UNCHANGED <<invoked, Surfaces>>

\* The main process sends an event on a channel: ipcRenderer calls the
\* channel's listeners.
IpcEvent(channel) ==
    /\ invoked' = [channel |-> channel, callbacks |-> emit(listeners[channel])]
    /\ UNCHANGED <<listeners, lastCall, Surfaces>>

BridgeInit == Init /\ persisted = Absent

BridgeNext ==
    \/ \E channel \in Channels, callback \in Callbacks : On(channel, callback)
    \/ \E channel \in Channels, callback \in Callbacks : Off(channel, callback)
    \/ \E channel \in Channels : IpcEvent(channel)

BridgeSpec == BridgeInit /\ [][BridgeNext]_vars

-----------------------------------------------------------------------------
(* Properties of the recording session.                                    *)

Capturing(input) == isRecording /\ currentInput = input

\* The value the abandon rule leaves in a field whose value was v.
Abandoned(input, v) == IF v = RecordingText THEN defaultHotkeys[input] ELSE v

\* C1: at most one field carries the recording mark, and it is the field the
\* session refers to; a click on field b while field a is capturing
\* finalises a under the abandon rule and leaves b the only capturing field.
C1_SingleCapture ==
    /\ [](/\ Cardinality(classList) <= 1
          /\ classList = IF isRecording THEN {currentInput} ELSE {})
    /\ [][\A a, b \in InputIds :
            (Capturing(a) /\ a # b /\ Click(b)) =>
                /\ ~Capturing(a)'
                /\ a \notin classList'
                /\ value'[a] = Abandoned(a, value[a])
                /\ Capturing(b)'
                /\ classList' = {b}
                /\ value'[b] = RecordingText]_vars

\* toggle-bar was clicked, then switch-es, and nothing else happened.
C1_Witness ==
    /\ nEvents = 2
    /\ loadpc = "await"
    /\ Capturing("switch-es")
    /\ classList = {"switch-es"}
    /\ value["toggle-bar"] = "Alt+B"
    /\ value["push-to-talk"] = ""

KeyToken(k) ==
    CASE k = "b" -> "B"
      [] k = "4" -> "4"
      [] k = " " -> " "
      [] k = "F5" -> "F5"

CanonicalString(e) ==
    (IF e.ctrlKey THEN "Ctrl+" ELSE "")
    \o (IF e.altKey THEN "Alt+" ELSE "")
    \o (IF e.shiftKey THEN "Shift+" ELSE "")
    \o KeyToken(e.key)

\* C3: a key-down of a non-modifier key while a field is capturing commits
\* the present modifiers in the order Ctrl, Alt, Shift, then the key's token
\* (upper-cased when one character long), joined by '+'.
C3_CommittedString ==
    [][\A e \in KeyEvents :
        (isRecording /\ e.key \notin ModifierKeys /\ KeyDown(e)) =>
            value'[currentInput] = CanonicalString(e)]_vars

C3_Witness ==
    /\ Capturing("switch-en")
    /\ value["toggle-bar"] = "Ctrl+Alt+Shift+B"

-----------------------------------------------------------------------------
(* Properties of the binding set: abandon, reset, load, save.              *)

\* The capturing field loses focus, or another field is activated.
LoseFocus == Blur \/ \E b \in InputIds : Click(b)

\* C4: a capturing field that loses focus or is preempted before a chord is
\* committed takes its default value, and no other field changes.
C4_AbandonRestoresDefault ==
    [][\A a \in InputIds :
        (Capturing(a) /\ LoseFocus /\ ~Capturing(a)') =>
            /\ value'[a] = defaultHotkeys[a]
            /\ \A o \in InputIds \ {a} :
                   value'[o] = value[o] \/ Capturing(o)']_vars

\* C5: a confirmed reset makes every field its default, whatever it held,
\* and a second reset of the result changes nothing.
C5_ResetAll ==
    [][ClickReset(TRUE) =>
        /\ value' = defaultHotkeys
        /\ resetHotkeys(value') = value']_vars

\* The stored switch-en was Ctrl+Shift+F5 and was loaded; one gesture later
\* every field is its default.
C5_Witness ==
    /\ nEvents = 1
    /\ loadpc = "ok"
    /\ written = NoWrite
    /\ persisted = Blob(withHotkeys(NoSections, FullHotkeys))
    /\ value = defaultHotkeys

SpecLoad(blob) ==
    [id \in InputIds |->
        IF /\ blob.present
           /\ "hotkeys" \in DOMAIN blob.sections
           /\ id \in DOMAIN blob.sections["hotkeys"]
        THEN blob.sections["hotkeys"][id]
        ELSE defaultHotkeys[id]]

\* C7: after a load every field holds the stored entry for its action when
\* there is one and the action's default otherwise.
C7_LoadPerAction ==
    [][LoadResolve => value' = SpecLoad(persisted)]_vars

HasHotkeys(blob) == blob.present /\ "hotkeys" \in DOMAIN blob.sections

\* C8: a load that reads an absent blob, or one without a hotkeys section,
\* ends without an error and leaves every field at its default.
C8_AbsentLoadsDefaults ==
    [][(LoadResolve /\ ~HasHotkeys(persisted)) =>
        /\ value' = defaultHotkeys
        /\ loadpc' = "ok"
        /\ console' = console]_vars

C8_Witness ==
    /\ nEvents = 0
    /\ persisted = Absent
    /\ loadpc = "ok"
    /\ console = {}
    /\ value = defaultHotkeys

\* C9: a load whose read rejects is logged and leaves every field at its
\* default.
C9_FailedLoadDefaults ==
    [][LoadReject =>
        /\ LoadError \in console'
        /\ value' = defaultHotkeys]_vars

SaveRejected == \E i \in 1..Len(saves) : SaveReadReject(i) \/ SaveWriteReject(i)

-----------------------------------------------------------------------------
(* Properties of the two surfaces' use of the store.                       *)

SaveWritten == \E i \in 1..Len(saves) : SaveWriteResolve(i)

\* C11: when the write of the dialog's Save has resolved, the dialog window
\* is closed.
C11_SaveClosesDialog ==
    [][SaveWritten => closed']_vars

\* The sections of a blob other than hotkeys.
OtherSections(blob) ==
    [k \in DOMAIN blob.sections \ {"hotkeys"} |-> blob.sections[k]]

HotkeysSection(blob) ==
    IF HasHotkeys(blob) THEN blob.sections["hotkeys"] ELSE NoSections

DialogPending == (IF loadpc = "await" THEN 1 ELSE 0) + Len(saves)

\* C14: a surface has at most one gateway request unresolved at any time.
C14_SequentialPerSurface ==
    /\ DialogPending <= 1
    /\ Len(mainSaves) <= 1

-----------------------------------------------------------------------------
(* Frame properties of the dialog's handlers.                              *)

\* The dialog's operations other than Save.
NonSaveOperation ==
    \/ \E input \in InputIds : Click(input)
    \/ Blur
    \/ \E e \in TypedKeyEvents : KeyDown(e)
    \/ \E confirmed \in BOOLEAN : ClickReset(confirmed)
    \/ LoadResolve
    \/ LoadReject

\* C16: loading, activating a field, committing a chord, abandoning a
\* session and resetting issue no gateway write: they leave the persisted
\* blob as it was and start no save.
C16_OnlySaveWrites ==
    [][NonSaveOperation =>
        /\ persisted' = persisted
        /\ written' = written
        /\ saves' = saves]_vars

\* A field was activated, a chord committed and the reset confirmed after
\* the load, and the store still holds the blob it began with.
C16_Witness ==
    /\ nEvents = MaxEvents
    /\ loadpc = "ok"
    /\ lastConfirm = "accepted"
    /\ value = defaultHotkeys
    /\ written = NoWrite
    /\ saves = <<>>
    /\ persisted = Blob(withHotkeys(NoSections, FullHotkeys))

\* C17: a key-down while the session is idle changes no field value, leaves
\* the session idle and does not suppress the event's default handling.
C17_IdleKeyDownNoOp ==
    [][\A e \in KeyEvents :
        (~isRecording /\ KeyDown(e)) =>
            /\ UNCHANGED <<value, classList, currentInput>>
            /\ ~isRecording'
            /\ ~defaultPrevented']_vars

\* A chord was committed (suppressed) and a further key-down arrived in the
\* idle session: the committed value stands and the event is not suppressed.
C17_Witness ==
    /\ nEvents = MaxEvents
    /\ ~isRecording
    /\ ~defaultPrevented
    /\ value["switch-pt"] = "Ctrl+Shift+4"

\* C18: every key-down received while a session is open has its default
\* handling suppressed, a modifier-only press included.
C18_CapturingSuppresses ==
    [][\A e \in KeyEvents :
        (isRecording /\ KeyDown(e)) => defaultPrevented']_vars

\* A lone Control press was received by an open session and suppressed.
C18_Witness ==
    /\ defaultPrevented
    /\ value["toggle-bar"] = "Ctrl"

\* C19: a declined reset leaves the six values and the session as they
\* were, and a reset click that changes a value is a confirmed one.
C19_DeclinedResetNoOp ==
    [][/\ ClickReset(FALSE) =>
            UNCHANGED <<value, classList, isRecording, currentInput>>
       /\ \A confirmed \in BOOLEAN :
            (ClickReset(confirmed) /\ value' # value) =>
                confirmed /\ lastConfirm' = "accepted"]_vars

\* The reset was declined with a non-default value loaded: it stands.
C19_Witness ==
    /\ lastConfirm = "declined"
    /\ loadpc = "ok"
    /\ value["switch-en"] = "Ctrl+Shift+F5"

\* The hotkeys object the most recent Save collected.
LastCollected == saves[Len(saves)].hotkeys

-----------------------------------------------------------------------------
(* Unresolved requests and the entry point of the dialog.                  *)

\* A request of some Save of the dialog resolves or rejects.
SaveSettles ==
    \E i \in 1..Len(saves) :
        \/ SaveReadResolve(i)
        \/ SaveReadReject(i)
        \/ SaveWriteResolve(i)
        \/ SaveWriteReject(i)

\* A handler of the dialog other than Save's, or the load's continuation.
OtherHandler ==
    \/ \E input \in InputIds : Click(input)
    \/ Blur
    \/ \E e \in TypedKeyEvents : KeyDown(e)
    \/ \E confirmed \in BOOLEAN : ClickReset(confirmed)
    \/ LoadResolve
    \/ LoadReject

\* C21: as long as no request of a pending Save settles, the Save does
\* nothing: the dialog is not closed, no save error is logged, the pending
\* invocations stay as they are, no field value changes except through
\* another handler, and the Save button still accepts a click.
C21_UnresolvedSaveInert ==
    /\ [][(saves # <<>> /\ ~SaveSettles) =>
            /\ closed' = closed
            /\ SaveError \in console' => SaveError \in console
            /\ Len(saves') >= Len(saves)
            /\ \A i \in 1..Len(saves) : saves'[i] = saves[i]
            /\ value' # value => OtherHandler]_vars
    /\ [](/\ saves # <<>>
          /\ Len(saves) < MaxSaves
          /\ nEvents < MaxEvents
          /\ ~closed
          => ENABLED ClickSave)

\* A Save is still waiting for its write while a second click on Save has
\* started another one with the values the fields have by then.
C21_Witness ==
    /\ Len(saves) = 2
    /\ saves[1].stage = "write"
    /\ saves[2].stage = "read"
    /\ saves[2].hotkeys # saves[1].hotkeys
    /\ ~closed
    /\ SaveError \notin console

\* C22: a click on the main surface's change-hotkeys button opens the
\* dialog.
C22_ChangeOpensDialog ==
    [][ClickChangeHotkeys => opened' = opened + 1]_vars

-----------------------------------------------------------------------------
(* The chord commit and the strings it produces.                           *)

\* C23: a key-down with a non-modifier key in Capturing(a) sets the value of
\* a, and of no other field, to the normalized string, takes the recording
\* mark off a and leaves the session idle, all in that step.
C23_CommitTransition ==
    [][\A a \in InputIds, e \in KeyEvents :
        (Capturing(a) /\ e.key \notin ModifierKeys /\ KeyDown(e)) =>
            /\ value' = [value EXCEPT ![a] = CanonicalString(e)]
            /\ a \notin classList'
            /\ classList' = classList \ {a}
            /\ ~isRecording'
            /\ currentInput' = null]_vars

\* A chord was committed into switch-es: the session is idle, no field is
\* marked and a field not involved still has the value it was loaded with.
C23_Witness ==
    /\ value["switch-es"] = "Ctrl+Shift+B"
    /\ value["switch-en"] = "Alt+1"
    /\ ~isRecording
    /\ currentInput = null
    /\ classList = {}

\* The Canonical Hotkey Strings of the key events: modifiers in the order
\* Ctrl, Alt, Shift, then the token of one non-modifier key.
CanonicalStrings ==
    {CanonicalString(e) : e \in {k \in KeyEvents : k.key \notin ModifierKeys}}

\* The values a field has without a chord commit.
UncommittedValues ==
    {InitialValue[a] : a \in InputIds} \cup {RecordingText}
        \cup {defaultHotkeys[a] : a \in InputIds}

\* C24: a field value that a chord commit wrote is a Canonical Hotkey
\* String, never a bare modifier combination.
C24_CommittedIsCanonical ==
    \A a \in InputIds : value[a] \in UncommittedValues \cup CanonicalStrings

\* C27: with only Alt held, a key-down of the space bar in Capturing(a)
\* commits 'Alt+Space', the default of push-to-talk.
C27_SpaceCommitsDefault ==
    [][\A a \in InputIds :
        (Capturing(a) /\ KeyDown(KeyEvent(" ", FALSE, TRUE, FALSE))) =>
            /\ value'[a] = "Alt+Space"
            /\ value'[a] = defaultHotkeys["push-to-talk"]]_vars

-----------------------------------------------------------------------------
(* What Save stores, and the session next to the asynchronous load.        *)

GatewayFailure ==
    \/ LoadReject
    \/ \E i \in 1..Len(saves) : SaveReadReject(i) \/ SaveWriteReject(i)

\* C26: isRecording holds exactly when currentInput is a field, the
\* recording class is on that field alone and on none when idle, and a
\* rejected gateway request changes neither isRecording nor currentInput.
C26_SessionCoherent ==
    /\ [](/\ isRecording <=> currentInput # null
          /\ currentInput \in InputIds \cup {null}
          /\ classList = IF isRecording THEN {currentInput} ELSE {})
    /\ [][GatewayFailure => UNCHANGED <<isRecording, currentInput>>]_vars

\* The load was rejected while a field was capturing: the session is still
\* open on that field.
C26_Witness ==
    /\ Capturing("switch-pt")
    /\ classList = {"switch-pt"}
    /\ loadpc = "caught"
    /\ LoadError \in console

CommittedStrings == {join(hotkeyKeys(e), "+") : e \in TypedKeyEvents}

\* C30: when the load's read resolves, a capturing field that shows the
\* placeholder still shows it and a field holding a committed chord still
\* holds it.
C30_LoadKeepsInput ==
    [][LoadResolve =>
        \A a \in InputIds :
            /\ (Capturing(a) /\ value[a] = RecordingText) =>
                   value'[a] = RecordingText
            /\ value[a] \in CommittedStrings => value'[a] = value[a]]_vars

-----------------------------------------------------------------------------
(* The preload bridge's on / off.                                          *)

\* C31: off(channel, callback) called right after on(channel, callback) on
\* a whitelisted channel puts the channel's listeners back to what they
\* were before the on call, so the callback registered by that call is not
\* invoked by a later event.
C31_OffUndoesOn ==
    [][\A channel \in {"dictation-status", "mic-level"},
          callback \in Callbacks :
        (/\ lastCall.op = "on"
         /\ lastCall.channel = channel
         /\ lastCall.callback = callback
         /\ Off(channel, callback)) =>
            /\ Len(listeners'[channel]) = Len(lastCall.before)
            /\ emit(listeners'[channel]) = emit(lastCall.before)]_vars

\* The channels that are not on the whitelist.
OtherChannels == Channels \ {"dictation-status", "mic-level"}

\* C32: no listener is ever registered on a channel off the whitelist, on
\* and off with such a channel leave every listener list as it is, and an
\* event on such a channel invokes no renderer callback.
C32_WhitelistOnly ==
    /\ [](\A channel \in OtherChannels : listeners[channel] = <<>>)
    /\ [][\A channel \in OtherChannels, callback \in Callbacks :
            (On(channel, callback) \/ Off(channel, callback)) =>
                listeners' = listeners]_vars
    /\ [][\A channel \in OtherChannels :
            IpcEvent(channel) => invoked'.callbacks = <<>>]_vars

\* on was called with a channel off the whitelist, and the event sent on
\* that channel afterwards invoked nothing.
C32_Witness ==
    /\ lastCall.op = "on"
    /\ lastCall.channel = "get-settings"
    /\ invoked.channel = "get-settings"
    /\ invoked.callbacks = <<>>
    /\ listeners = RendererListeners

====
